---- MODULE Spec2Model ----
(***************************************************************************)
(* The VFS request dispatcher of src/utils/vfs.js: prefix parsing, path    *)
(* sanitization, group authorization, the read-only check, mountpoint      *)
(* resolution and the request pipeline with its cross-adapter rename/copy  *)
(* decomposition.                                                          *)
(*                                                                         *)
(* JavaScript strings are tuples of one-character strings, so that split,  *)
(* match and replace are computed character by character.                  *)
(***************************************************************************)
EXTENDS Integers, Sequences, FiniteSets, TLC

VARIABLES
  provider,    \* the provider: mountpoint registry and adapters
  endpoint,    \* the operation name the handler is registered for
  ro,          \* the read-only override the handler is registered with
  userGroups,  \* req.session.user.groups
  pc,          \* where the request is: parse, then, call, settled, done, unhandled
  fields,      \* the parsed (then sanitized) fields
  files,       \* the uploaded temporary files
  pending,     \* the adapter call in flight
  promise,     \* the promise of line 174 once it is settled
  store,       \* the content the adapters hold, by virtual path
  trace,       \* what the request did, in order
  res,         \* the response
  vgIn, vgOut, \* an application of validateGroups: arguments and result
  inbound,     \* the fields as parseFields delivered them
  fnIn, fnOut  \* an application of checkReadOnly or resolveMountpoint

vars == <<provider, endpoint, ro, userGroups, pc, fields, files, pending,
          promise, store, trace, res, vgIn, vgOut, inbound, fnIn, fnOut>>

-----------------------------------------------------------------------------
(* Values *)

\* the JavaScript value undefined, where a string is expected
UNDEF == <<"<undefined>">>

\* String(undefined)
StrUndefined == <<"u", "n", "d", "e", "f", "i", "n", "e", "d">>

\* String(v)
ToStr(v) == IF v = UNDEF THEN StrUndefined ELSE v

\* the characters of the class \w that occur in the modelled paths
WordChars == {"a", "b", "g", "x", "y", "u", "n", "d", "e", "f", "i"}

\* error codes: a number, a string, or undefined
NumCode(n) == [type |-> "number", num |-> n, str |-> ""]
StrCode(s) == [type |-> "string", num |-> 0, str |-> s]
UndefCode == [type |-> "undefined", num |-> 0, str |-> ""]

\* class VFSError extends Error { constructor(message, code) }
VFSError(message, code) == [name |-> "Error", message |-> message, code |-> NumCode(code)]

\* Error.prototype.toString: name + ": " + message
ErrorToString(e) == <<e.name, ": ">> \o e.message

\* new Error(e): the message is String(e), and no code is carried over
NewError(e) == [name |-> "Error", message |-> ErrorToString(e), code |-> UndefCode]

NoError == [name |-> "", message |-> <<>>, code |-> UndefCode]

\* errorCodes as an empty table
errorCodesEmpty(c) == 0

\* const errorCodes = {ENOENT: 404, EACCES: 401}; 0 stands for a missing key
errorCodes(c) ==
  IF c.type = "string" /\ c.str = "ENOENT" THEN 404
  ELSE IF c.type = "string" /\ c.str = "EACCES" THEN 401
  ELSE 0

-----------------------------------------------------------------------------
(* String helpers *)

RECURSIVE UpTo(_, _)
\* the characters of s before the first c
UpTo(s, c) ==
  IF s = <<>> \/ Head(s) = c THEN <<>>
  ELSE <<Head(s)>> \o UpTo(Tail(s), c)

RECURSIVE CollapseSlashes(_)
\* s.replace(/\/+/g, '/')
CollapseSlashes(s) ==
  IF Len(s) < 2 THEN s
  ELSE IF Head(s) = "/" /\ Head(Tail(s)) = "/" THEN CollapseSlashes(Tail(s))
  ELSE <<Head(s)>> \o CollapseSlashes(Tail(s))

RECURSIVE Split(_, _)
\* s.split(c): the segments between the occurrences of c
Split(s, c) ==
  LET first == UpTo(s, c)
  IN IF Len(first) = Len(s) THEN <<first>>
     ELSE <<first>> \o Split(SubSeq(s, Len(first) + 2, Len(s)), c)

RECURSIVE Join(_, _)
\* segs.join(c)
Join(segs, c) ==
  IF Len(segs) = 0 THEN <<>>
  ELSE IF Len(segs) = 1 THEN Head(segs)
  ELSE Head(segs) \o <<c>> \o Join(Tail(segs), c)

RECURSIVE StripTrailing(_, _)
StripTrailing(s, cs) ==
  IF s # <<>> /\ s[Len(s)] \in cs THEN StripTrailing(SubSeq(s, 1, Len(s) - 1), cs)
  ELSE s

\* whether t occurs in s as a contiguous run
Contains(s, t) ==
  \E i \in 0..(Len(s) - Len(t)) : SubSeq(s, i + 1, i + Len(t)) = t

\* the npm package sanitize-filename on one segment: illegal characters are
\* removed, a segment of dots only becomes empty, trailing dots and spaces go
sanitizeFilename(s) ==
  LET legal == SelectSeq(s, LAMBDA ch : ch \notin {"/", "?", "<", ">", "\\", ":", "*", "|", "\""})
      reserved == IF legal # <<>> /\ \A i \in 1..Len(legal) : legal[i] = "." THEN <<>> ELSE legal
  IN StripTrailing(reserved, {".", " "})

\* filename.replace(/\/+/g, '/').match(/^(\w+):(.*)/): the length of the \w+ run
\* when the match succeeds, 0 when it fails
MatchLen(filename) ==
  LET s == CollapseSlashes(filename)
      I == {i \in 1..Len(s) : s[i] \notin WordChars}
      k == IF I = {} THEN 0 ELSE CHOOSE i \in I : \A j \in I : i <= j
  IN IF k > 1 /\ s[k] = ":" THEN k - 1 ELSE 0

\* sanitize throws a TypeError (str is undefined) when the match fails
sanitizeThrows(filename) == MatchLen(filename) = 0

sanitize(filename) ==
  LET s == CollapseSlashes(filename)
      n == MatchLen(filename)
      name == SubSeq(s, 1, n)
      str == SubSeq(s, n + 2, Len(s))
      segs == Split(str, "/")
      sane == CollapseSlashes(Join([i \in 1..Len(segs) |-> sanitizeFilename(segs[i])], "/"))
  IN name \o <<":">> \o sane

\* const getPrefix = str => String(str).split(':')[0]
getPrefix(str) == UpTo(ToStr(str), ":")

-----------------------------------------------------------------------------
(* Group authorization *)

\* the keys a per-operation mapping entry of a groups attribute may carry
MapKeys == {"readfile", "writefile", "unlink", "rename", "write"}

\* an entry of attributes.groups: a bare group name (typeof g === 'string')
BareGroup(name) ==
  [str |-> TRUE, name |-> name, keys |-> {}, req |-> [k \in MapKeys |-> <<>>]]

\* an entry of attributes.groups: an object with the one key k
MapGroup(k, required) ==
  [str |-> FALSE, name |-> "", keys |-> {k},
   req |-> [j \in MapKeys |-> IF j = k THEN required ELSE <<>>]]

\* an entry of attributes.groups: an object with the two keys k1 and k2
MapGroup2(k1, required1, k2, required2) ==
  [str |-> FALSE, name |-> "", keys |-> {k1, k2},
   req |-> [j \in MapKeys |-> IF j = k1 THEN required1
                              ELSE IF j = k2 THEN required2 ELSE <<>>]]

\* all with some() in place of every()
allSome(arr, compare) == \E i \in 1..Len(arr) : arr[i] \in compare

\* const all = (arr, compare) => arr.every(g => compare.indexOf(g) !== -1)
all(arr, compare) == \A i \in 1..Len(arr) : arr[i] \in compare

\* groups.find(g => typeof g === 'string' ? false : (method in g)) as an index,
\* 0 for undefined
methodGroupsIndex(groups, method) ==
  LET I == {i \in 1..Len(groups) : ~groups[i].str /\ method \in groups[i].keys}
  IN IF I = {} THEN 0 ELSE CHOOSE i \in I : \A j \in I : i <= j

validateGroups(ug, method, mountpoint) ==
  LET groups == mountpoint.attributes.groups
      namedGroups == SelectSeq(groups, LAMBDA g : g.str)
      mg == methodGroupsIndex(groups, method)
      namedValid == IF Len(namedGroups) > 0
                    THEN all([i \in 1..Len(namedGroups) |-> namedGroups[i].name], ug)
                    ELSE TRUE
      methodValid == IF mg # 0 THEN all(groups[mg].req[method], ug) ELSE TRUE
  IN IF Len(groups) > 0 THEN namedValid /\ methodValid ELSE TRUE

-----------------------------------------------------------------------------
(* Read-only check *)

\* the read-only override an endpoint is registered with: a boolean, undefined
\* (falsy), or a function returning one field of the request
RoBool(b) == [fn |-> FALSE, val |-> b, key |-> ""]
RoFn(k) == [fn |-> TRUE, val |-> FALSE, key |-> k]

\* the fields object: its keys in insertion order and the value of each
\* path-bearing key (UNDEF when absent)
FieldKeys == {"path", "from", "to", "root"}
MkFields(keys, val) == [keys |-> keys, val |-> val]
NoVal == [k \in FieldKeys |-> UNDEF]

\* ro(fields) for a function-valued override
roApply(r, f) == f.val[r.key]

\* checkReadOnly with a function-valued override that blocks whatever it returns
checkReadOnlyAnyPrefix(r, mountpoint, f) ==
  IF mountpoint.attributes.readOnly
  THEN IF r.fn THEN TRUE ELSE r.val
  ELSE FALSE

checkReadOnly(r, mountpoint, f) ==
  IF mountpoint.attributes.readOnly
  THEN IF r.fn THEN getPrefix(roApply(r, f)) = mountpoint.name ELSE r.val
  ELSE FALSE

-----------------------------------------------------------------------------
(* Provider: the mountpoint registry and the adapters *)

\* the operations of the handler set ../vfs/methods that the model exercises
vfsMethods == {"readfile", "writefile", "unlink", "rename", "copy"}

\* a mountpoint that names no adapter (mountpoint.adapter is undefined)
NoAdapter == "undefined"

Mountpoint(name, adapter, groups, readOnly) ==
  [name |-> name, adapter |-> adapter,
   attributes |-> [groups |-> groups, readOnly |-> readOnly]]

\* an adapter object: the operations it exposes
Adapter(id, ops) == [id |-> id, ops |-> ops]

NullMount == Mountpoint(<<>>, NoAdapter, <<>>, FALSE)
NullAdapter == Adapter("", {})

\* const getAdapter = (provider, mountpoint) => mountpoint.adapter
\*   ? provider.adapters[mountpoint.adapter] : provider.adapters.system
getAdapter(prov, mountpoint) ==
  IF mountpoint.adapter # NoAdapter
  THEN prov.adapters[mountpoint.adapter]
  ELSE prov.adapters["system"]

-----------------------------------------------------------------------------
(* Mountpoint resolution *)

\* Object.keys(fields).find(key => known.indexOf(key) !== -1), UNDEF for none
knownField(f) ==
  LET I == {i \in 1..Len(f.keys) : f.keys[i] \in {"path", "from", "root"}}
  IN IF I = {} THEN "" ELSE f.keys[CHOOSE i \in I : \A j \in I : i <= j]

\* provider.mountpoints.find(m => m.name === prefix) as an index, 0 for none
findMountpoint(prov, prefix) ==
  LET I == {i \in 1..Len(prov.mountpoints) : prov.mountpoints[i].name = prefix}
  IN IF I = {} THEN 0 ELSE CHOOSE i \in I : \A j \in I : i <= j

Resolved(adapter, mountpoint) ==
  [ok |-> TRUE, kind |-> "ok", error |-> NoError,
   adapter |-> adapter, mountpoint |-> mountpoint]

Thrown(kind, error) ==
  [ok |-> FALSE, kind |-> kind, error |-> error,
   adapter |-> NullAdapter, mountpoint |-> NullMount]

\* resolveMountpoint with the group check ahead of the read-only check
resolveMountpointGroupsFirst(prov, ep, f, ug, r) ==
  LET field == knownField(f)
      prefix == getPrefix(IF field = "" THEN UNDEF ELSE f.val[field])
      idx == IF prefix # <<>> THEN findMountpoint(prov, prefix) ELSE 0
      mountpoint == IF idx = 0 THEN NullMount ELSE prov.mountpoints[idx]
      adapter == getAdapter(prov, mountpoint)
  IN IF idx = 0
     THEN Thrown("notfound",
                 VFSError(<<"Mountpoint not found for '">> \o prefix \o <<"'">>, 403))
     ELSE IF ~validateGroups(ug, ep, mountpoint)
     THEN Thrown("denied",
                 VFSError(<<"Permission was denied for '", ep, "' in '">> \o prefix \o <<"'">>, 403))
     ELSE IF checkReadOnly(r, mountpoint, f)
     THEN Thrown("readonly",
                 VFSError(<<"Mountpoint '">> \o prefix \o <<" is read-only'">>, 403))
     ELSE IF ep \notin vfsMethods \/ ep \notin adapter.ops
     THEN Thrown("unsupported",
                 VFSError(<<"VFS Endpoint '", ep, " was not valid for this mountpoint.'">>, 401))
     ELSE Resolved(adapter, mountpoint)

\* resolveMountpoint(provider)(endpoint, fields, userGroups, ro): the pair
\* [adapter, mountpoint], or the VFSError it throws
resolveMountpoint(prov, ep, f, ug, r) ==
  LET field == knownField(f)
      prefix == getPrefix(IF field = "" THEN UNDEF ELSE f.val[field])
      idx == IF prefix # <<>> THEN findMountpoint(prov, prefix) ELSE 0
      mountpoint == IF idx = 0 THEN NullMount ELSE prov.mountpoints[idx]
      adapter == getAdapter(prov, mountpoint)
  IN IF idx = 0
     THEN Thrown("notfound",
                 VFSError(<<"Mountpoint not found for '">> \o prefix \o <<"'">>, 403))
     ELSE IF checkReadOnly(r, mountpoint, f)
     THEN Thrown("readonly",
                 VFSError(<<"Mountpoint '">> \o prefix \o <<" is read-only'">>, 403))
     ELSE IF ~validateGroups(ug, ep, mountpoint)
     THEN Thrown("denied",
                 VFSError(<<"Permission was denied for '", ep, "' in '">> \o prefix \o <<"'">>, 403))
     ELSE IF ep \notin vfsMethods \/ ep \notin adapter.ops
     THEN Thrown("unsupported",
                 VFSError(<<"VFS Endpoint '", ep, " was not valid for this mountpoint.'">>, 401))
     ELSE Resolved(adapter, mountpoint)

-----------------------------------------------------------------------------
(* The request pipeline *)

\* the number of temporary files an upload request carries
MaxFiles == 1

NoFile == <<>>
UploadContent == <<"upload">>
TrueResult == <<"true">>

\* an entry of the trace: a resolution, an adapter call, its return or error,
\* a log line, a removed temporary file, or the response
Event(ev, op, adapter, mp, path, to, data, msg) ==
  [ev |-> ev, op |-> op, adapter |-> adapter, mp |-> mp,
   path |-> path, to |-> to, data |-> data, msg |-> msg]

RoTag(r) == IF r.fn THEN "fn:" ELSE IF r.val THEN "true" ELSE "false"

\* one call of resolve() as it appears in the trace
ResolveEvent(ep, f, r, result) ==
  Event("resolve", ep, result.adapter.id, result.mountpoint,
        (LET k == knownField(f) IN IF k = "" THEN UNDEF ELSE f.val[k]),
        UNDEF, <<result.kind, RoTag(r)>>, result.error.message)

\* {path: p}
PathOnly(p) == MkFields(<<"path">>, [NoVal EXCEPT !["path"] = p])

NoPair == [adapter |-> NullAdapter, mountpoint |-> NullMount]

\* request(method, fields, files)(adapter, mountpoint): the adapter call, and
\* for the steps of the cross-adapter chain the pairs its closures hold
Call(method, f, upload, adapter, mountpoint, chain, src, dst) ==
  [active |-> TRUE, op |-> method, f |-> f, upload |-> upload,
   adapter |-> adapter, mountpoint |-> mountpoint,
   chain |-> chain, src |-> src, dst |-> dst]

NoCall ==
  [active |-> FALSE, op |-> "", f |-> MkFields(<<>>, NoVal), upload |-> NoFile,
   adapter |-> NullAdapter, mountpoint |-> NullMount,
   chain |-> FALSE, src |-> NoPair, dst |-> NoPair]

CallEvent(c) ==
  Event("call", c.op, c.adapter.id, c.mountpoint,
        IF c.op \in {"rename", "copy"} THEN c.f.val["from"] ELSE c.f.val["path"],
        IF c.op \in {"rename", "copy"} THEN c.f.val["to"] ELSE UNDEF,
        c.upload, <<>>)

Pending == [state |-> "pending", value |-> <<>>, error |-> NoError]
Fulfilled(v) == [state |-> "fulfilled", value |-> v, error |-> NoError]
Rejected(e) == [state |-> "rejected", value |-> <<>>, error |-> e]

\* the outcome of the try block of lines 176-199
Started(events, c) == [events |-> events, call |-> c, promise |-> Pending]
Caught(events, e) == [events |-> events, call |-> NoCall, promise |-> Rejected(NewError(e))]

\* lines 193-196: the requested operation, resolved and issued
Direct(ep, f, fl, ug, r, prov, before) ==
  LET r3 == resolveMountpoint(prov, ep, f, ug, r)
      ev == before \o <<ResolveEvent(ep, f, r, r3)>>
      c == Call(ep, f, IF Len(fl) > 0 THEN UploadContent ELSE NoFile,
                r3.adapter, r3.mountpoint, FALSE, NoPair, NoPair)
  IN IF r3.ok THEN Started(ev \o <<CallEvent(c)>>, c) ELSE Caught(ev, r3.error)

\* TryBlock with a destination resolution whose failure is not thrown
TryBlockIgnoresDestination(ep, f, fl, ug, r, prov) ==
  IF ep \in {"rename", "copy"}
  THEN LET f1 == PathOnly(f.val["from"])
           f2 == PathOnly(f.val["to"])
           r1 == resolveMountpoint(prov, "readfile", f1, ug, RoBool(FALSE))
           r2 == resolveMountpoint(prov, "writefile", f2, ug, RoBool(TRUE))
           e1 == <<ResolveEvent("readfile", f1, RoBool(FALSE), r1)>>
           e2 == e1 \o <<ResolveEvent("writefile", f2, RoBool(TRUE), r2)>>
           src == [adapter |-> r1.adapter, mountpoint |-> r1.mountpoint]
           dst == [adapter |-> r2.adapter, mountpoint |-> r2.mountpoint]
           sameAdapter == r1.mountpoint.adapter = r2.mountpoint.adapter
           c == Call("readfile", f1, NoFile, r1.adapter, r1.mountpoint, TRUE, src, dst)
       IN IF ~r1.ok THEN Caught(e1, r1.error)
          ELSE IF ~r2.ok \/ ~sameAdapter THEN Started(e2 \o <<CallEvent(c)>>, c)
          ELSE Direct(ep, f, fl, ug, r, prov, e2)
  ELSE Direct(ep, f, fl, ug, r, prov, <<>>)

\* TryBlock with the destination resolved under the endpoint's own override
TryBlockEndpointOverride(ep, f, fl, ug, r, prov) ==
  IF ep \in {"rename", "copy"}
  THEN LET f1 == PathOnly(f.val["from"])
           f2 == PathOnly(f.val["to"])
           r1 == resolveMountpoint(prov, "readfile", f1, ug, RoBool(FALSE))
           r2 == resolveMountpoint(prov, "writefile", f2, ug, r)
           e1 == <<ResolveEvent("readfile", f1, RoBool(FALSE), r1)>>
           e2 == e1 \o <<ResolveEvent("writefile", f2, r, r2)>>
           src == [adapter |-> r1.adapter, mountpoint |-> r1.mountpoint]
           dst == [adapter |-> r2.adapter, mountpoint |-> r2.mountpoint]
           sameAdapter == r1.mountpoint.adapter = r2.mountpoint.adapter
           c == Call("readfile", f1, NoFile, r1.adapter, r1.mountpoint, TRUE, src, dst)
       IN IF ~r1.ok THEN Caught(e1, r1.error)
          ELSE IF ~r2.ok THEN Caught(e2, r2.error)
          ELSE IF ~sameAdapter THEN Started(e2 \o <<CallEvent(c)>>, c)
          ELSE Direct(ep, f, fl, ug, r, prov, e2)
  ELSE Direct(ep, f, fl, ug, r, prov, <<>>)

\* lines 176-199: resolutions and the first adapter call
TryBlock(ep, f, fl, ug, r, prov) ==
  IF ep \in {"rename", "copy"}
  THEN LET f1 == PathOnly(f.val["from"])
           f2 == PathOnly(f.val["to"])
           r1 == resolveMountpoint(prov, "readfile", f1, ug, RoBool(FALSE))
           r2 == resolveMountpoint(prov, "writefile", f2, ug, RoBool(TRUE))
           e1 == <<ResolveEvent("readfile", f1, RoBool(FALSE), r1)>>
           e2 == e1 \o <<ResolveEvent("writefile", f2, RoBool(TRUE), r2)>>
           src == [adapter |-> r1.adapter, mountpoint |-> r1.mountpoint]
           dst == [adapter |-> r2.adapter, mountpoint |-> r2.mountpoint]
           sameAdapter == r1.mountpoint.adapter = r2.mountpoint.adapter
           c == Call("readfile", f1, NoFile, r1.adapter, r1.mountpoint, TRUE, src, dst)
       IN IF ~r1.ok THEN Caught(e1, r1.error)
          ELSE IF ~r2.ok THEN Caught(e2, r2.error)
          ELSE IF ~sameAdapter THEN Started(e2 \o <<CallEvent(c)>>, c)
          ELSE Direct(ep, f, fl, ug, r, prov, e2)
  ELSE Direct(ep, f, fl, ug, r, prov, <<>>)

-----------------------------------------------------------------------------
(* Adapters and the handler set (../vfs/methods, ../vfs/adapters) *)

\* the path a call reads or removes, and the path it writes
CallSource(c) == IF c.op \in {"rename", "copy"} THEN c.f.val["from"] ELSE c.f.val["path"]
CallTarget(c) == IF c.op \in {"rename", "copy"} THEN c.f.val["to"] ELSE c.f.val["path"]

\* an adapter operation succeeds only if the content it reads is there: the
\* upload for writefile, the source for the others
CanSucceed(c, st) ==
  IF c.op = "writefile" THEN c.upload # NoFile ELSE st[CallSource(c)] # NoFile

\* what a successful adapter operation does to the content
Effect(c, st) ==
  CASE c.op = "writefile" -> [st EXCEPT ![CallTarget(c)] = c.upload]
    [] c.op = "unlink" -> [st EXCEPT ![CallSource(c)] = NoFile]
    [] c.op = "copy" -> [st EXCEPT ![CallTarget(c)] = st[CallSource(c)]]
    [] c.op = "rename" /\ CallSource(c) # CallTarget(c) ->
         [st EXCEPT ![CallTarget(c)] = st[CallSource(c)], ![CallSource(c)] = NoFile]
    [] OTHER -> st

\* what a successful adapter operation resolves to
Result(c, st) == IF c.op = "readfile" THEN st[CallSource(c)] ELSE TrueResult

\* the codes an adapter's error may carry
AdapterErrorCodes == {StrCode("ENOENT"), StrCode("EACCES"), StrCode("EIO"), NumCode(500), UndefCode}

AdapterError(code) == [name |-> "Error", message |-> <<"adapter failure">>, code |-> code]

\* vfsMethods[method](...)(core, adapter, mountpoint) calls adapter[method]:
\* a TypeError when either is missing
Invocable(method, adapter) == method \in vfsMethods /\ method \in adapter.ops

NotAFunction(method) ==
  [name |-> "TypeError", message |-> <<method, " is not a function">>, code |-> UndefCode]

-----------------------------------------------------------------------------
(* Responses *)

NoResponse == [sent |-> FALSE, status |-> 0, kind |-> "none", body |-> <<>>]

\* const respondError = error => { ... res.status(code).json({error: error.toString()}) }
respondError(error) ==
  LET code == IF error.code.type = "number"
              THEN error.code.num
              ELSE IF errorCodes(error.code) # 0 THEN errorCodes(error.code) ELSE 400
  IN [sent |-> TRUE, status |-> code, kind |-> "error", body |-> ErrorToString(error)]

\* result.pipe(res) for readfile, res.json(result) otherwise
respondResult(ep, result) ==
  [sent |-> TRUE, status |-> 200, kind |-> IF ep = "readfile" THEN "pipe" ELSE "json",
   body |-> result]

PlainEvent(ev, data) == Event(ev, "", "", NullMount, UNDEF, UNDEF, data, <<>>)

\* lines 203-207: fs.unlink of every uploaded temporary file, for writefile only
Cleanup(ep, fl) ==
  IF ep = "writefile"
  THEN [i \in 1..Len(fl) |-> PlainEvent("rmtmp", <<"tmp", fl[i]>>)]
  ELSE <<>>

-----------------------------------------------------------------------------
(* Inputs *)

PathBY == <<"b", ":", "/", "y">>
PathGhost == <<"g", ":", "/", "x">>
PathNoColon == <<"a", "x">>
PathDirty == <<"a", ":", "/", "/", ".", ".", "/", "x">>
PathAY == <<"a", ":", "/", "y">>

\* inbound field values: one that sanitize changes (to a:/x), a clean one, one
\* of no registered mountpoint, and one without a colon
RawPaths == {PathDirty, PathBY, PathGhost, PathNoColon}

\* the virtual paths the adapters hold content for
Locs == {sanitize(p) : p \in {q \in RawPaths \cup {PathAY} : ~sanitizeThrows(q)}}

Endpoints == vfsMethods \cup {"nosuch"}

Overrides == {RoBool(FALSE), RoBool(TRUE), RoFn("to")}

UserGroupSets == {{}, {"admin"}}

GroupConfigs ==
  {<<>>, <<BareGroup("admin")>>, <<MapGroup("unlink", <<"admin">>)>>,
   <<MapGroup("write", <<"editors">>)>>}

AllOps == vfsMethods

\* mountpoint b names no adapter, the system adapter, or a cloud adapter that
\* may lack unlink; mountpoint a names none
AdapterChoices ==
  {<<NoAdapter, AllOps>>, <<"system", AllOps>>, <<"cloud", AllOps>>,
   <<"cloud", AllOps \ {"unlink"}>>}

Providers ==
  {[mountpoints |->
      <<Mountpoint(<<"a">>, NoAdapter, ga, ra), Mountpoint(<<"b">>, ac[1], gb, rb)>>,
    adapters |-> [id \in {"system", "cloud"} |->
      Adapter(id, IF id = "cloud" THEN ac[2] ELSE AllOps)]] :
     ac \in AdapterChoices,
     ga \in GroupConfigs, gb \in {<<>>, <<BareGroup("admin")>>},
     ra \in BOOLEAN, rb \in BOOLEAN}

\* the fields a request for endpoint ep carries: a path, or a source and a
\* destination, or (the client chooses the fields it sends) a path ahead of them
InFields(ep) ==
  IF ep \in {"rename", "copy"}
  THEN {MkFields(<<"from", "to">>, [NoVal EXCEPT !["from"] = p, !["to"] = q]) :
          p \in RawPaths, q \in RawPaths}
       \cup {MkFields(<<"path", "from", "to">>,
                      [NoVal EXCEPT !["path"] = PathBY, !["from"] = PathDirty,
                                    !["to"] = PathAY])}
  ELSE {MkFields(<<"path">>, [NoVal EXCEPT !["path"] = p]) : p \in RawPaths}

\* the uploaded files of a request: none, or MaxFiles of them
InFiles == {<<>>, [i \in 1..MaxFiles |-> i]}

-----------------------------------------------------------------------------
(* The request handler, lines 152-220 *)

NoVG == [ug |-> {}, method |-> "", groups |-> <<>>]

\* no pure function is being applied
NoFn == [fn |-> "none"]

Init ==
  /\ provider \in Providers
  /\ endpoint \in Endpoints
  /\ ro \in Overrides
  /\ userGroups \in UserGroupSets
  /\ pc = "parse"
  /\ fields = MkFields(<<>>, NoVal)
  /\ files = <<>>
  /\ pending = NoCall
  /\ promise = Pending
  /\ store = [l \in Locs |-> <<"content of">> \o l]
  /\ trace = <<>>
  /\ res = NoResponse
  /\ vgIn = NoVG
  /\ vgOut = "none"
  /\ inbound = MkFields(<<>>, NoVal)
  /\ fnIn = NoFn
  /\ fnOut = "none"

\* parseFields(req) resolves: a GET request carries no files
ParseFieldsResolve ==
  /\ pc = "parse"
  /\ \E f \in InFields(endpoint), fl \in InFiles :
       /\ fields' = f
       /\ inbound' = f
       /\ files' = fl
  /\ pc' = "then"
  /\ UNCHANGED <<provider, endpoint, ro, userGroups, pending, promise, store,
                 trace, res, vgIn, vgOut, fnIn, fnOut>>

\* parseFields(req) rejects (form.parse reports an error): the promise that
\* request() returns is rejected and nothing handles it
ParseFieldsReject ==
  /\ pc = "parse"
  /\ pc' = "unhandled"
  /\ trace' = trace \o <<PlainEvent("parse-error", <<>>)>>
  /\ UNCHANGED <<provider, endpoint, ro, userGroups, fields, files, pending,
                 promise, store, res, vgIn, vgOut, inbound, fnIn, fnOut>>

\* Sanitized with a loop that leaves the field to as it came in
SanitizedNotTo(f) ==
  MkFields(f.keys, [k \in FieldKeys |->
    IF f.val[k] # UNDEF /\ k # "to" THEN sanitize(f.val[k]) ELSE f.val[k]])

\* lines 168-172: every defined path-bearing field is replaced by sanitize()
Sanitized(f) ==
  MkFields(f.keys, [k \in FieldKeys |->
    IF f.val[k] # UNDEF THEN sanitize(f.val[k]) ELSE UNDEF])

SanitizeFails(f) == \E k \in FieldKeys : f.val[k] # UNDEF /\ sanitizeThrows(f.val[k])

\* lines 167-199: the callback of parseFields().then, up to the first adapter call
Dispatch ==
  /\ pc = "then"
  /\ IF SanitizeFails(fields)
     THEN /\ pc' = "unhandled"
          /\ trace' = trace \o <<PlainEvent("sanitize-error", <<>>)>>
          /\ UNCHANGED <<fields, pending, promise>>
     ELSE LET f == Sanitized(fields)
              t == TryBlock(endpoint, f, files, userGroups, ro, provider)
          IN /\ fields' = f
             /\ trace' = trace \o t.events
             /\ pending' = t.call
             /\ promise' = t.promise
             /\ pc' = IF t.call.active THEN "call" ELSE "settled"
  /\ UNCHANGED <<provider, endpoint, ro, userGroups, files, store, res, vgIn, vgOut, inbound, fnIn, fnOut>>

\* Continue without the endpoint === 'rename' test of line 186
ContinueAlwaysUnlinks(c, result, ep, f) ==
  LET w == Call("writefile", PathOnly(f.val["to"]), result,
                c.dst.adapter, c.dst.mountpoint, TRUE, c.src, c.dst)
      u == Call("unlink", PathOnly(f.val["from"]), NoFile,
                c.src.adapter, c.src.mountpoint, TRUE, c.src, c.dst)
  IN IF ~c.chain THEN [call |-> NoCall, promise |-> Fulfilled(result)]
     ELSE IF c.op = "readfile" THEN [call |-> w, promise |-> Pending]
     ELSE IF c.op = "writefile"
     THEN IF Invocable("unlink", c.src.adapter)
          THEN [call |-> u, promise |-> Pending]
          ELSE [call |-> NoCall, promise |-> Rejected(NotAFunction("unlink"))]
     ELSE [call |-> NoCall, promise |-> Fulfilled(TrueResult)]

\* lines 184-189: what follows a successful step of the promise chain
Continue(c, result, ep, f) ==
  LET w == Call("writefile", PathOnly(f.val["to"]), result,
                c.dst.adapter, c.dst.mountpoint, TRUE, c.src, c.dst)
      u == Call("unlink", PathOnly(f.val["from"]), NoFile,
                c.src.adapter, c.src.mountpoint, TRUE, c.src, c.dst)
  IN IF ~c.chain THEN [call |-> NoCall, promise |-> Fulfilled(result)]
     ELSE IF c.op = "readfile" THEN [call |-> w, promise |-> Pending]
     ELSE IF c.op = "writefile" /\ ep = "rename"
     THEN IF Invocable("unlink", c.src.adapter)
          THEN [call |-> u, promise |-> Pending]
          ELSE [call |-> NoCall, promise |-> Rejected(NotAFunction("unlink"))]
     ELSE [call |-> NoCall, promise |-> Fulfilled(TrueResult)]

\* the adapter call in flight succeeds, and the chain goes on
AdapterResolve ==
  /\ pc = "call"
  /\ CanSucceed(pending, store)
  /\ LET result == Result(pending, store)
         n == Continue(pending, result, endpoint, fields)
         done == Event("ret", pending.op, pending.adapter.id, pending.mountpoint,
                       CallSource(pending), CallTarget(pending), result, <<>>)
         thrown == Event("throw", "unlink", pending.src.adapter.id,
                         pending.src.mountpoint, fields.val["from"], UNDEF, <<>>,
                         ErrorToString(n.promise.error))
     IN /\ store' = Effect(pending, store)
        /\ pending' = n.call
        /\ promise' = n.promise
        /\ trace' = trace \o <<done>> \o
                    (IF n.call.active THEN <<CallEvent(n.call)>>
                     ELSE IF n.promise.state = "rejected" THEN <<thrown>>
                     ELSE <<>>)
        /\ pc' = IF n.call.active THEN "call" ELSE "settled"
  /\ UNCHANGED <<provider, endpoint, ro, userGroups, fields, files, res, vgIn, vgOut, inbound, fnIn, fnOut>>

\* AdapterReject with a chain that swallows the error of a step and goes on
AdapterRejectSwallowed ==
  /\ pc = "call"
  /\ \E code \in AdapterErrorCodes :
       LET n == Continue(pending, NoFile, endpoint, fields)
           failed == Event("err", pending.op, pending.adapter.id,
                           pending.mountpoint, CallSource(pending),
                           CallTarget(pending), <<>>,
                           ErrorToString(AdapterError(code)))
       IN /\ promise' = IF n.call.active THEN Pending ELSE Rejected(AdapterError(code))
          /\ pending' = n.call
          /\ trace' = trace \o <<failed>> \o
                      (IF n.call.active THEN <<CallEvent(n.call)>> ELSE <<>>)
          /\ pc' = IF n.call.active THEN "call" ELSE "settled"
  /\ UNCHANGED <<provider, endpoint, ro, userGroups, fields, files, store, res,
                 vgIn, vgOut, inbound, fnIn, fnOut>>

\* the adapter call in flight fails: the chain is rejected with its error
AdapterReject ==
  /\ pc = "call"
  /\ \E code \in AdapterErrorCodes :
       /\ promise' = Rejected(AdapterError(code))
       /\ trace' = trace \o <<Event("err", pending.op, pending.adapter.id,
                                     pending.mountpoint, CallSource(pending),
                                     CallTarget(pending), <<>>,
                                     ErrorToString(AdapterError(code)))>>
  /\ pending' = NoCall
  /\ pc' = "settled"
  /\ UNCHANGED <<provider, endpoint, ro, userGroups, fields, files, store, res,
                 vgIn, vgOut, inbound, fnIn, fnOut>>

\* lines 201-218: the handlers of the settled promise
Respond ==
  /\ pc = "settled"
  /\ IF promise.state = "fulfilled"
     THEN /\ res' = respondResult(endpoint, promise.value)
          /\ trace' = trace \o Cleanup(endpoint, files) \o
                      <<PlainEvent("respond", promise.value)>>
     ELSE /\ res' = respondError(promise.error)
          /\ trace' = trace \o <<PlainEvent("log", ErrorToString(promise.error)),
                                 PlainEvent("respond", ErrorToString(promise.error))>>
  /\ pc' = "done"
  /\ UNCHANGED <<provider, endpoint, ro, userGroups, fields, files, pending,
                 promise, store, vgIn, vgOut, inbound, fnIn, fnOut>>

Next ==
  \/ ParseFieldsResolve
  \/ ParseFieldsReject
  \/ Dispatch
  \/ AdapterResolve
  \/ AdapterReject
  \/ Respond

Spec == Init /\ [][Next]_vars

-----------------------------------------------------------------------------
(* Properties *)

\* the positions of the trace that hold an event of one of the kinds evs
At(evs) == {i \in 1..Len(trace) : trace[i].ev \in evs}

\* the adapter events of the trace, in order
AdapterEvents == SelectSeq(trace, LAMBDA e : e.ev \in {"call", "ret", "err", "throw"})

MutatingOps == {"writefile", "unlink", "mkdir", "rename", "copy"}

\* both resolutions of a rename or copy succeeded
BothResolved ==
  /\ endpoint \in {"rename", "copy"}
  /\ Len(trace) >= 2
  /\ trace[1].ev = "resolve" /\ trace[1].data[1] = "ok"
  /\ trace[2].ev = "resolve" /\ trace[2].data[1] = "ok"

\* the request was decomposed into readfile/writefile/unlink primitives
Decomposed ==
  /\ endpoint \in {"rename", "copy"}
  /\ \E i \in At({"call", "throw"}) : trace[i].op \in {"readfile", "writefile", "unlink"}

\* C1: no state-mutating adapter operation completes against a mountpoint whose
\* readOnly attribute is truthy. Stated for the strictest registration of the
\* endpoint (override true), where even the claim's weakest reading demands it.
C1_ReadOnlyNeverMutated ==
  ro = RoBool(TRUE) =>
    \A i \in At({"ret"}) :
      trace[i].op \in MutatingOps => ~trace[i].mp.attributes.readOnly

\* C2: an adapter operation op is invoked on mountpoint m only if the caller's
\* groups pass the group check for op on m.
C2_CallsPassGroupCheck ==
  \A i \in At({"call"}) : validateGroups(userGroups, trace[i].op, trace[i].mp)

\* C3: a rename or copy is decomposed iff source and destination mountpoint
\* resolve to different adapters (no adapter identifier meaning the system
\* adapter); on the same adapter a successful request makes exactly one native
\* call and issues no primitive.
C3_DecomposedIffDifferentAdapters ==
  (BothResolved /\ pc \in {"call", "settled", "done"}) =>
    LET different == getAdapter(provider, trace[1].mp).id # getAdapter(provider, trace[2].mp).id
    IN /\ Decomposed <=> different
       /\ (~different /\ pc = "done" /\ res.kind = "json") =>
            /\ Cardinality(At({"call"})) = 1
            /\ \A i \in At({"call"}) : trace[i].op = endpoint

\* the request has run to its end
Terminal == pc \in {"done", "unhandled"}

\* the resolutions of the trace that threw
FailedResolutions == {i \in At({"resolve"}) : trace[i].data[1] # "ok"}

\* C4: a cross-adapter rename whose steps all succeed calls exactly readfile on
\* the source path, writefile on the destination path with the buffer readfile
\* returned, then unlink on the source path, each call starting after the
\* previous one returned, and answers true; a copy does the same without unlink.
C4_CrossAdapterSequence ==
  LET ae == AdapterEvents
      from == fields.val["from"]
      to == fields.val["to"]
      n == IF endpoint = "rename" THEN 6 ELSE 4
  IN /\ Decomposed =>
          \A k \in 2..Len(ae) : ae[k].ev = "call" => ae[k - 1].ev = "ret"
     /\ (Decomposed /\ pc = "done" /\ res.kind # "error") =>
          /\ Len(ae) = n
          /\ \A k \in 1..n : ae[k].ev = (IF k % 2 = 1 THEN "call" ELSE "ret")
          /\ ae[1].op = "readfile" /\ ae[2].op = "readfile"
          /\ ae[1].path = from /\ ae[1].mp.name = getPrefix(from)
          /\ ae[3].op = "writefile" /\ ae[4].op = "writefile"
          /\ ae[3].path = to /\ ae[3].mp.name = getPrefix(to)
          /\ ae[3].data = ae[2].data /\ ae[2].data # NoFile
          /\ endpoint = "rename" =>
               /\ ae[5].op = "unlink" /\ ae[6].op = "unlink"
               /\ ae[5].path = from /\ ae[5].mp = ae[1].mp
          /\ res.kind = "json" /\ res.body = TrueResult

C4_Witness ==
  /\ pc = "done" /\ endpoint = "rename" /\ Decomposed
  /\ res.kind = "json" /\ Len(AdapterEvents) = 6
  /\ store[fields.val["from"]] = NoFile
  /\ store[fields.val["to"]] = <<"content of">> \o fields.val["from"]

\* C5: when a step of a cross-adapter rename or copy fails, no later step and no
\* compensating call is issued and the response is the error response of that
\* step's error; when the unlink of a rename fails after writefile succeeded,
\* the content is at both source and destination.
C5_FailureAbortsChain ==
  Decomposed =>
    \A i \in At({"err", "throw"}) :
      /\ \A j \in At({"call", "ret", "err", "throw"}) : j <= i
      /\ pc = "done" =>
           /\ res.kind = "error" /\ res.body = trace[i].msg
           /\ res.status \in {400, 401, 404, 500}
      /\ trace[i].op = "unlink" =>
           /\ store[fields.val["from"]] = <<"content of">> \o fields.val["from"]
           /\ store[fields.val["to"]] = <<"content of">> \o fields.val["from"]

C5_Witness ==
  /\ pc = "done" /\ endpoint = "rename" /\ Decomposed
  /\ \E i \in At({"err"}) : trace[i].op = "unlink"
  /\ res.kind = "error"

\* C6: if any resolution of a request fails, no adapter operation is invoked in
\* that request.
C6_FailedResolutionNoCall ==
  FailedResolutions # {} => At({"call", "ret", "err", "throw"}) = {}

C6_Witness ==
  /\ pc = "done" /\ endpoint \in {"rename", "copy"}
  /\ Len(trace) >= 3 /\ trace[1].data[1] = "ok" /\ trace[2].data[1] = "ok"
  /\ 3 \in FailedResolutions

\* some step of the request failed
Failed ==
  \/ At({"parse-error", "sanitize-error", "err", "throw"}) # {}
  \/ FailedResolutions # {}

\* C7: every request that has run to its end has emitted a response; when a step
\* failed (parsing, sanitization, resolution, adapter call) the response is an
\* {error: message} payload with a numeric status, logged before it is sent.
C7_EveryRequestResponds ==
  Terminal =>
    /\ res.sent
    /\ Failed =>
         /\ res.kind = "error" /\ res.status > 0
         /\ \E i \in At({"log"}), j \in At({"respond"}) : i < j

\* C8: when resolution fails, the response carries the resolver error's own
\* code (403 for not found, read-only and denied, 401 for an unsupported
\* endpoint) and a message that contains the resolver's message.
C8_ResolverStatus ==
  pc = "done" =>
    \A i \in FailedResolutions :
      /\ res.status = (IF trace[i].data[1] = "unsupported" THEN 401 ELSE 403)
      /\ Contains(res.body, trace[i].msg)

\* the cross-adapter rename needs unlink, which the handler set or the source
\* adapter lacks
UnlinkMissing ==
  /\ BothResolved /\ endpoint = "rename"
  /\ trace[1].mp.adapter # trace[2].mp.adapter
  /\ ~Invocable("unlink", getAdapter(provider, trace[1].mp))

\* C9: every adapter operation invoked was verified, before the first adapter
\* call, to be in the handler set and on the adapter receiving it; when a needed
\* operation is missing the request fails as unsupported with no adapter call.
C9_CallsVerifiedFirst ==
  /\ \A i \in At({"call"}) :
       \E j \in At({"resolve"}) :
         /\ \A k \in At({"call"}) : j < k
         /\ trace[j].op = trace[i].op /\ trace[j].mp = trace[i].mp
         /\ trace[j].data[1] = "ok"
  /\ (UnlinkMissing /\ pc = "done") =>
       /\ At({"call"}) = {}
       /\ Contains(res.body, <<" was not valid for this mountpoint.'">>)

-----------------------------------------------------------------------------
(* validateGroups on its own *)

\* the longest groups attribute tried
MaxGroupEntries == 2

GroupEntries ==
  {BareGroup("admin"), BareGroup("editors"),
   MapGroup("writefile", <<"admin">>), MapGroup("writefile", <<"editors">>),
   MapGroup("unlink", <<"admin", "editors">>), MapGroup("write", <<"editors">>),
   MapGroup2("writefile", <<"editors">>, "unlink", <<"admin">>)}

GroupAttributes ==
  UNION {[1..n -> GroupEntries] : n \in 0..MaxGroupEntries}

InitVG ==
  /\ vgIn \in [ug : SUBSET {"admin", "editors"},
               method : {"readfile", "writefile", "unlink"},
               groups : GroupAttributes]
  /\ vgOut = "none"
  /\ provider = [mountpoints |-> <<>>,
                 adapters |-> [id \in {"system", "cloud"} |-> Adapter(id, AllOps)]]
  /\ endpoint = "readfile"
  /\ ro = RoBool(FALSE)
  /\ userGroups = {}
  /\ pc = "validateGroups"
  /\ fields = MkFields(<<>>, NoVal)
  /\ files = <<>>
  /\ pending = NoCall
  /\ promise = Pending
  /\ store = [l \in Locs |-> NoFile]
  /\ trace = <<>>
  /\ res = NoResponse
  /\ inbound = MkFields(<<>>, NoVal)
  /\ fnIn = NoFn
  /\ fnOut = "none"

\* validateGroups(userGroups, method, mountpoint) is applied
ApplyValidateGroups ==
  /\ pc = "validateGroups"
  /\ vgOut = "none"
  /\ vgOut' = IF validateGroups(vgIn.ug, vgIn.method,
                                Mountpoint(<<"a">>, NoAdapter, vgIn.groups, FALSE))
              THEN "allow" ELSE "deny"
  /\ UNCHANGED <<provider, endpoint, ro, userGroups, pc, fields, files, pending,
                 promise, store, trace, res, vgIn, inbound, fnIn, fnOut>>

SpecVG == InitVG /\ [][ApplyValidateGroups]_vars

\* the bare group names a groups attribute declares
BareNames(groups) == {groups[i].name : i \in {j \in 1..Len(groups) : groups[j].str}}

\* the mapping entries of a groups attribute that have key op
Keyed(groups, op) == {i \in 1..Len(groups) : ~groups[i].str /\ op \in groups[i].keys}

\* the groups entry i lists under key op
ListedUnder(groups, op, i) ==
  {groups[i].req[op][k] : k \in 1..Len(groups[i].req[op])}

\* C10 as stated: the check allows iff m declares no groups, or every bare group
\* is in G and every group that m lists under key op is in G.
C10_AllListedGroups ==
  vgOut # "none" =>
    (vgOut = "allow" <=>
       \/ Len(vgIn.groups) = 0
       \/ /\ BareNames(vgIn.groups) \subseteq vgIn.ug
          /\ \A i \in Keyed(vgIn.groups, vgIn.method) :
               ListedUnder(vgIn.groups, vgIn.method, i) \subseteq vgIn.ug)

\* C10 amended: the check allows iff m declares no groups, or every bare group
\* is in G and either no mapping entry has key op or every group listed under op
\* by the first mapping entry that has key op is in G; a caller holding only
\* some of those groups is denied.
C10_FirstEntryGroups ==
  vgOut # "none" =>
    LET K == Keyed(vgIn.groups, vgIn.method)
        required == BareNames(vgIn.groups) \cup
                    UNION {ListedUnder(vgIn.groups, vgIn.method, i) :
                             i \in {j \in K : \A k \in K : j <= k}}
    IN vgOut = "allow" <=> (Len(vgIn.groups) = 0 \/ required \subseteq vgIn.ug)

C10_Witness ==
  /\ vgOut = "deny"
  /\ vgIn.ug = {"admin"}
  /\ vgIn.method = "unlink"
  /\ vgIn.groups = <<BareGroup("admin"), MapGroup("unlink", <<"admin", "editors">>)>>

-----------------------------------------------------------------------------
(* Properties of the request pipeline, continued *)

\* the registered mountpoint that the value of a field names, if any
FieldMount(k) ==
  LET i == findMountpoint(provider, getPrefix(fields.val[k]))
  IN IF i = 0 THEN NullMount ELSE provider.mountpoints[i]

\* C11: a writefile request of a caller without the group editors, on a
\* mountpoint whose groups attribute is [{write: ['editors']}] (found, and not
\* blocked as read-only), is denied: no adapter call, status 403, and a message
\* containing 'Permission was denied'.
C11_WriteGroupDenied ==
  (/\ pc = "done" /\ endpoint = "writefile"
   /\ "editors" \notin userGroups
   /\ FieldMount("path") # NullMount
   /\ FieldMount("path").attributes.groups = <<MapGroup("write", <<"editors">>)>>
   /\ ~checkReadOnly(ro, FieldMount("path"), fields)) =>
    /\ At({"call"}) = {}
    /\ res.status = 403
    /\ Contains(res.body, <<"Permission was denied for '">>)

\* the request ended with the failure of an adapter call
AdapterCallFailed ==
  /\ pc = "done"
  /\ At({"err"}) # {}

\* C13: when an adapter call fails with error e, the response status is e.code
\* if e.code is a number, 404 for ENOENT, 401 for EACCES, and 400 for every
\* other or missing code; the body is an error body carrying e's message.
C13_AdapterErrorStatus ==
  AdapterCallFailed =>
    LET e == promise.error
    IN /\ res.status =
            CASE e.code.type = "number" -> e.code.num
              [] e.code = StrCode("ENOENT") -> 404
              [] e.code = StrCode("EACCES") -> 401
              [] OTHER -> 400
       /\ res.kind = "error"
       /\ res.body = <<"Error", ": ">> \o e.message
       /\ \E i \in At({"err"}) : trace[i].msg = res.body

C13_Witness ==
  /\ AdapterCallFailed
  /\ promise.error.code = StrCode("ENOENT")
  /\ res.status = 404

\* a rename or copy whose destination mountpoint is readOnly
ReadOnlyDestination ==
  /\ endpoint \in {"rename", "copy"}
  /\ FieldMount("to") # NullMount
  /\ FieldMount("to").attributes.readOnly

\* the response carries the read-only error
ReadOnlyResponse ==
  /\ res.kind = "error"
  /\ Contains(res.body, <<" is read-only'">>)

\* the source resolution of a rename or copy succeeded
SourceResolved ==
  /\ Len(trace) >= 1
  /\ trace[1].ev = "resolve" /\ trace[1].data[1] = "ok"

\* C15 as stated: a rename or copy whose destination mountpoint is readOnly
\* fails with the read-only error and invokes no adapter operation.
C15_ReadOnlyDestinationFails ==
  (pc = "done" /\ ReadOnlyDestination) =>
    /\ At({"call", "throw"}) = {}
    /\ ReadOnlyResponse

\* C15, amended: a rename or copy whose destination mountpoint is readOnly
\* invokes no adapter operation and ends in an error; the error is the
\* read-only error whenever the source resolution succeeded, and the error of
\* the source resolution otherwise.
C15_ReadOnlyDestinationBlocks ==
  ReadOnlyDestination =>
    /\ pc # "call"
    /\ At({"call", "ret", "err", "throw"}) = {}
    /\ pc = "done" =>
         /\ res.kind = "error"
         /\ SourceResolved => ReadOnlyResponse /\ trace[2].data[1] = "readonly"
         /\ ~SourceResolved => Contains(res.body, trace[1].msg)

C15_Witness ==
  /\ pc = "done"
  /\ ReadOnlyDestination
  /\ endpoint = "rename"
  /\ ro = RoBool(FALSE)
  /\ FieldMount("from").adapter # FieldMount("to").adapter
  /\ ReadOnlyResponse

\* the sanitized value of the inbound field k
SIn(k) == sanitize(inbound.val[k])

\* the path an event of the trace carries is the sanitized inbound value of
\* the field it was taken from
SanitizedPath(e) ==
  IF endpoint \in {"rename", "copy"}
  THEN CASE e.op \in {"readfile", "unlink"} -> e.path = SIn("from")
         [] e.op = "writefile" -> e.path = SIn("to")
         [] OTHER -> IF e.ev = "resolve"
                     THEN e.path = SIn(knownField(inbound))
                     ELSE e.path = SIn("from") /\ e.to = SIn("to")
  ELSE e.path = SIn("path")

\* C17: every present path-bearing field is replaced by its sanitized value
\* before the first resolution and before any adapter call, and every path a
\* resolution or an adapter operation receives (the primitives of a
\* cross-adapter rename or copy included) is the sanitized value.
C17_SanitizedBeforeUse ==
  At({"resolve", "call", "ret", "err", "throw"}) # {} =>
    /\ \A k \in FieldKeys :
         fields.val[k] = IF inbound.val[k] = UNDEF THEN UNDEF ELSE SIn(k)
    /\ \A i \in At({"resolve", "call", "ret", "err", "throw"}) :
         SanitizedPath(trace[i])

C17_Witness ==
  /\ pc = "done"
  /\ endpoint = "rename"
  /\ inbound.val["from"] = PathBY
  /\ inbound.val["to"] = PathDirty
  /\ \E i \in At({"ret"}) :
       /\ trace[i].op = "writefile"
       /\ trace[i].path = sanitize(PathDirty)
       /\ trace[i].path # PathDirty

\* C18: for every request that carried uploaded files and whose operation
\* succeeds, whatever the operation name, a deletion is issued for each
\* uploaded temporary file before the result is serialized to the response.
\* Stated for the operations that are not served by GET.
C18_UploadsRemoved ==
  (/\ pc = "done"
   /\ res.kind \in {"pipe", "json"}
   /\ endpoint # "readfile"
   /\ Len(files) > 0) =>
    \A i \in 1..Len(files) :
      \E j \in At({"rmtmp"}) :
        /\ trace[j].data = <<"tmp", files[i]>>
        /\ \A k \in At({"respond"}) : j < k

\* the positions of the native rename or copy calls of the trace
NativeCalls == {i \in At({"call"}) : trace[i].op \in {"rename", "copy"}}

\* C20: a same-adapter rename or copy reaches the adapter only after three
\* successful resolutions in this order: readfile on the source mountpoint
\* with override false, writefile on the destination mountpoint with override
\* true, the requested operation with the endpoint's own override; the native
\* call is bound to the mountpoint of the from field.
C20_NativeCallBoundToSource ==
  \A i \in NativeCalls :
    /\ i = 4
    /\ \A j \in 1..3 : trace[j].ev = "resolve" /\ trace[j].data[1] = "ok"
    /\ trace[1].op = "readfile" /\ trace[1].data[2] = "false"
    /\ trace[1].mp = FieldMount("from")
    /\ trace[2].op = "writefile" /\ trace[2].data[2] = "true"
    /\ trace[2].mp = FieldMount("to")
    /\ trace[3].op = endpoint /\ trace[3].data[2] = RoTag(ro)
    /\ trace[i].op = endpoint
    /\ trace[i].mp = FieldMount("from")

-----------------------------------------------------------------------------
(* checkReadOnly on its own *)

\* the pipeline is not running: a pure function is applied instead
Idle(at) ==
  /\ provider = [mountpoints |-> <<>>,
                 adapters |-> [id \in {"system", "cloud"} |-> Adapter(id, AllOps)]]
  /\ endpoint = "readfile"
  /\ ro = RoBool(FALSE)
  /\ userGroups = {}
  /\ pc = at
  /\ fields = MkFields(<<>>, NoVal)
  /\ files = <<>>
  /\ pending = NoCall
  /\ promise = Pending
  /\ store = [l \in Locs |-> NoFile]
  /\ trace = <<>>
  /\ res = NoResponse
  /\ vgIn = NoVG
  /\ vgOut = "none"
  /\ inbound = MkFields(<<>>, NoVal)

\* field values: absent, on mountpoint a, on mountpoint b, and the bare name a
FieldValues == {UNDEF, PathDirty, PathBY, <<"a">>}

InitRO ==
  /\ Idle("checkReadOnly")
  /\ fnIn \in [fn : {"checkReadOnly"},
               ro : {RoBool(FALSE), RoBool(TRUE), RoFn("path"), RoFn("from"), RoFn("to")},
               mountpoint : {Mountpoint(n, NoAdapter, <<>>, b) :
                               n \in {<<"a">>, <<"b">>}, b \in BOOLEAN},
               fields : {MkFields(<<"path", "from", "to">>,
                                  [NoVal EXCEPT !["path"] = p, !["from"] = q, !["to"] = t]) :
                           p \in FieldValues, q \in FieldValues, t \in FieldValues}]
  /\ fnOut = "none"

\* checkReadOnly(ro, mountpoint, fields) is applied
ApplyCheckReadOnly ==
  /\ pc = "checkReadOnly"
  /\ fnOut = "none"
  /\ fnOut' = IF checkReadOnly(fnIn.ro, fnIn.mountpoint, fnIn.fields)
              THEN "block" ELSE "pass"
  /\ UNCHANGED <<provider, endpoint, ro, userGroups, pc, fields, files, pending,
                 promise, store, trace, res, vgIn, vgOut, inbound, fnIn>>

SpecRO == InitRO /\ [][ApplyCheckReadOnly]_vars

\* the mount prefix of the value a function-valued override returns
OverridePrefix == getPrefix(fnIn.fields.val[fnIn.ro.key])

\* C12: the read-only check blocks iff the mountpoint's readOnly attribute is
\* truthy and either the override is a function and the prefix of ro(fields) is
\* the mountpoint's name, or it is no function and is true; so a mountpoint
\* that is not readOnly is never blocked, and a readOnly one is blocked for
\* every override true.
C12_BlocksIff ==
  fnOut # "none" =>
    /\ fnOut = "block" <=>
         /\ fnIn.mountpoint.attributes.readOnly
         /\ \/ fnIn.ro.fn /\ OverridePrefix = fnIn.mountpoint.name
            \/ ~fnIn.ro.fn /\ fnIn.ro.val
    /\ ~fnIn.mountpoint.attributes.readOnly => fnOut = "pass"
    /\ (fnIn.mountpoint.attributes.readOnly /\ fnIn.ro = RoBool(TRUE)) => fnOut = "block"

C12_Witness ==
  /\ fnOut = "pass"
  /\ fnIn.mountpoint.attributes.readOnly
  /\ fnIn.mountpoint.name = <<"a">>
  /\ fnIn.ro = RoFn("to")
  /\ fnIn.fields.val["to"] = PathBY
  /\ fnIn.fields.val["path"] = PathDirty

-----------------------------------------------------------------------------
(* resolveMountpoint on its own *)

\* resolveMountpoint has not returned
NoResult == Thrown("none", NoError)

\* the fields objects resolve() is called with: one path on either mountpoint,
\* on no mountpoint, without a colon (the bare name a, and ax), a source and a
\* destination, and one without a known field
ResolveFields ==
  {PathOnly(p) : p \in {sanitize(PathDirty), PathBY, PathGhost, <<"a">>, PathNoColon}}
  \cup {MkFields(<<"from", "to">>,
                 [NoVal EXCEPT !["from"] = sanitize(PathDirty), !["to"] = PathBY]),
        MkFields(<<"to">>, [NoVal EXCEPT !["to"] = PathBY])}

InitResolve ==
  /\ provider \in Providers
  /\ endpoint \in Endpoints
  /\ ro \in Overrides
  /\ userGroups \in UserGroupSets
  /\ fields \in ResolveFields
  /\ pc = "resolveMountpoint"
  /\ files = <<>>
  /\ pending = NoCall
  /\ promise = Pending
  /\ store = [l \in Locs |-> NoFile]
  /\ trace = <<>>
  /\ res = NoResponse
  /\ vgIn = NoVG
  /\ vgOut = "none"
  /\ inbound = MkFields(<<>>, NoVal)
  /\ fnIn = NoFn
  /\ fnOut = NoResult

\* resolveMountpoint(provider)(endpoint, fields, userGroups, ro) is applied
ApplyResolveMountpoint ==
  /\ pc = "resolveMountpoint"
  /\ fnOut = NoResult
  /\ fnOut' = resolveMountpoint(provider, endpoint, fields, userGroups, ro)
  /\ UNCHANGED <<provider, endpoint, ro, userGroups, pc, fields, files, pending,
                 promise, store, trace, res, vgIn, vgOut, inbound, fnIn>>

SpecResolve == InitResolve /\ [][ApplyResolveMountpoint]_vars

\* the value of the first known field, where there is one
KnownValue == IF knownField(fields) = "" THEN UNDEF ELSE fields.val[knownField(fields)]

HasColon(v) == \E i \in 1..Len(v) : v[i] = ":"

KnownMount ==
  LET I == {i \in 1..Len(provider.mountpoints) :
              provider.mountpoints[i].name = getPrefix(KnownValue)}
  IN IF I = {} THEN NullMount
     ELSE provider.mountpoints[CHOOSE i \in I : \A j \in I : i <= j]

NotFound == KnownMount = NullMount
ReadOnlyBlocked == checkReadOnly(ro, KnownMount, fields)
GroupDenied == ~validateGroups(userGroups, endpoint, KnownMount)
Unsupported ==
  \/ endpoint \notin vfsMethods
  \/ endpoint \notin getAdapter(provider, KnownMount).ops

\* C16: the resolver classifies a failure by the first failing check in the
\* order not found, read-only, permission denied, unsupported endpoint: a
\* request both read-only-blocked and lacking a group gets the read-only error,
\* one lacking a group on an adapter without the operation gets permission
\* denied.
C16_FirstFailingCheck ==
  fnOut # NoResult =>
    /\ NotFound => fnOut.kind = "notfound"
    /\ (~NotFound /\ ReadOnlyBlocked) => fnOut.kind = "readonly"
    /\ (~NotFound /\ ~ReadOnlyBlocked /\ GroupDenied) => fnOut.kind = "denied"
    /\ (~NotFound /\ ~ReadOnlyBlocked /\ ~GroupDenied /\ Unsupported) =>
         fnOut.kind = "unsupported"
    /\ (~NotFound /\ ~ReadOnlyBlocked /\ ~GroupDenied /\ ~Unsupported) =>
         /\ fnOut.ok
         /\ fnOut.mountpoint = KnownMount
    /\ fnOut.kind = "readonly" => Contains(fnOut.error.message, <<" is read-only'">>)
    /\ fnOut.kind = "denied" => Contains(fnOut.error.message, <<"Permission was denied for '">>)

C16_Witness ==
  /\ fnOut.kind = "readonly"
  /\ ReadOnlyBlocked /\ GroupDenied /\ Unsupported

-----------------------------------------------------------------------------
(* A rename or copy next to a concurrent request on its source path *)

OtherContent == <<"other">>

InitConc ==
  /\ Init
  /\ endpoint \in {"rename", "copy"}
  /\ ro = RoBool(FALSE)

\* another request, a writefile to the source path of the request in flight,
\* runs to completion between two steps of this one: request() holds no lock
\* and shares nothing with it but the adapters' stores
OtherWrite ==
  /\ pc = "call"
  /\ LET p == fields.val["from"]
     IN /\ \E ug \in UserGroupSets :
             resolveMountpoint(provider, "writefile", PathOnly(p), ug, RoBool(TRUE)).ok
        /\ store[p] # OtherContent
        /\ store' = [store EXCEPT ![p] = OtherContent]
        /\ trace' = trace \o <<Event("other", "writefile", "", NullMount, p, UNDEF,
                                     OtherContent, <<>>)>>
  /\ UNCHANGED <<provider, endpoint, ro, userGroups, pc, fields, files, pending,
                 promise, res, vgIn, vgOut, inbound, fnIn, fnOut>>

NextConc ==
  \/ Next
  \/ OtherWrite

SpecConc == InitConc /\ [][NextConc]_vars

\* the unlink of a cross-adapter rename completes in this step
UnlinkCompletes ==
  /\ pc = "call"
  /\ pending.chain
  /\ pending.op = "unlink"
  /\ pc' = "settled"
  /\ promise'.state = "fulfilled"

\* C19: under any interleaving with other requests on the same source path, a
\* cross-adapter rename never destroys content it did not copy: whenever its
\* unlink of the source completes, the content the source held at that moment
\* is the content it wrote to the destination.
C19_RenameDestroysOnlyCopied ==
  [][UnlinkCompletes =>
       \A i \in At({"call"}) :
         trace[i].op = "writefile" => trace[i].data = store[CallSource(pending)]]_vars

====
